---- MODULE Spec2Model ----
(***************************************************************************)
(* Treasure-Gym: a charge-and-jump platformer.                             *)
(*                                                                         *)
(* Numbers.  The JavaScript code computes with doubles; the model computes *)
(* with exact rationals on fixed grids:                                    *)
(*   time      in ticks of 1/TimeUnit seconds   (dt, chargeTime)           *)
(*   velocity  in 1/VelUnit world px per second (vx, vy, gravity)          *)
(*   position  in 1/PosUnit world px            (worldX, worldY, widths)   *)
(* With PosUnit = VelUnit * TimeUnit the products vx*dt and gravity*dt of  *)
(* Player.update are exact on these grids.                                 *)
(***************************************************************************)
EXTENDS Integers, Sequences, FiniteSets, TLC

VARIABLES
  canvas,        \* Game.canvas: [width, height] in screen px
  camera,        \* Game.camera: Camera object
  config,        \* PlatformManager.config
  platforms,     \* PlatformManager.platforms (sequence of Platform)
  seed,          \* hidden state of Math.random()
  player,        \* Game.player: Player object
  score,         \* Game.score
  gameOver,      \* Game.gameOver
  keys,          \* InputHandler._keys
  justPressed,   \* InputHandler._justPressed
  justReleased,  \* InputHandler._justReleased
  touches,       \* fingers on the screen: [game, ui] by the element first touched
  armsClosed,    \* CameraInput._armsClosed
  ratio,         \* CameraInput.ratio (NoSignal for null, else ratio * RatioUnit)
  thresholds,    \* [closed, open], each * RatioUnit
  loop,          \* CameraInput: _ready and the pending asynchronous steps
  call,          \* ghost: the last operation, the player before it, its result
  jumps,         \* ghost: number of successful releaseJump calls so far
  updates,       \* ghost: number of PlatformManager.update calls made directly
  samples,       \* ghost: ratios fed to the decoder so far
  closedBefore,  \* ghost: _armsClosed before each of those samples
  events,        \* ghost: events the decoder emitted, with the sample index
  io,            \* ghost: edges written since the last flush, what the last tick read
  ticks,         \* ghost: frames run so far, counted where the frames are bounded
  visited,       \* ghost: left edges of the platforms the player has stood on this run
  resizes        \* ghost: window resizes so far

vars == << canvas, camera, config, platforms, seed, player, score, gameOver,
           keys, justPressed, justReleased, armsClosed, ratio, thresholds, loop,
           call, jumps, updates, samples, closedBefore, events, touches, io, ticks, visited, resizes >>

gameVars  == << canvas, camera, config, platforms, seed, player, score, gameOver >>
inputVars == << keys, justPressed, justReleased >>
gestureVars == << armsClosed, ratio, thresholds, loop >>
ghostLog  == << updates, samples, closedBefore, events, resizes >>
rest      == << touches, io, ticks, visited >>

----------------------------------------------------------------------------
(* Units *)

TimeUnit == 20      \* ticks per second: one tick is the 0.05 s cap of Game._loop
VelUnit  == 3
PosUnit  == VelUnit * TimeUnit
RatioUnit == 10     \* gesture ratios and thresholds are kept in tenths

(* Bounds of the model *)

MaxChargeTicks == 32   \* frames stop advancing a charge held this many ticks
MaxJumps       == 1    \* successful jumps explored per behaviour
MaxSamples     == 5    \* gesture samples fed in the decoder specification
MaxUpdates     == 3    \* PlatformManager.update calls in the platform specification
MaxTicks       == 4    \* frames run in the input specification
MaxFingers     == 2    \* fingers on the screen at once
MaxResizes     == 1    \* window resizes explored per behaviour
MaxRestarts    == 2    \* camera restarts explored per behaviour

Px(n) == n * PosUnit

Min(a, b) == IF a < b THEN a ELSE b
Max(a, b) == IF a > b THEN a ELSE b
Abs(a)    == IF a < 0 THEN -a ELSE a

(* Math.round of the non-negative rational n/d: floor(n/d + 1/2). *)
MathRound(n, d) == (2 * n + d) \div (2 * d)

----------------------------------------------------------------------------
(* Math.random(): a generator with hidden state.  A draw yields seed/RandMod *)
(* in [0,1) and advances the state.                                          *)

RandMod  == 12
RandStep == 5

NextSeed(s) == (s + RandStep) % RandMod

(* min + Math.random() * (max - min), on the position grid (lo, hi in px). *)
RandBetween(s, lo, hi) == Px(lo) + (s * (hi - lo) * PosUnit) \div RandMod

----------------------------------------------------------------------------
(* Player *)

PlayerWidth  == 32
PlayerHeight == 48
Gravity      == 1400
MinVx        == 260
MaxVx        == 700
MinVy        == -500
MaxVy        == -880
MaxChargeT   == 30     \* maxCharge = 1.5 s, in ticks
DeathMargin  == 100

Vel(n) == n * VelUnit

Player(worldX, worldY) ==
  [ worldX |-> worldX, worldY |-> worldY, vx |-> 0, vy |-> 0,
    isOnGround |-> FALSE, isDead |-> FALSE,
    isCharging |-> FALSE, chargeTime |-> 0 ]

bottom(o) == o.worldY + Px(PlayerHeight)
top(o)    == o.worldY
left(o)   == o.worldX
right(o)  == o.worldX + o.width
pRight(p) == p.worldX + Px(PlayerWidth)

startCharge_NoGroundCheck(p) ==
  IF p.isDead THEN p
  ELSE [p EXCEPT !.isCharging = TRUE, !.chargeTime = 0]

startCharge_AnyState(p) == [p EXCEPT !.isCharging = TRUE, !.chargeTime = 0]

startCharge(p) ==
  IF ~p.isOnGround \/ p.isDead THEN p
  ELSE [p EXCEPT !.isCharging = TRUE, !.chargeTime = 0]

LaunchV_NoClamp(c, lo, hi) == Vel(lo) + (c * Vel(hi - lo)) \div MaxChargeT

(* Launch velocity for a charge time c: min + t * (max - min) with          *)
(* t = Math.min(c, maxCharge) / maxCharge.                                  *)
LaunchV(c, lo, hi) == Vel(lo) + (Min(c, MaxChargeT) * Vel(hi - lo)) \div MaxChargeT

CanRelease(p) == p.isCharging /\ p.isOnGround /\ ~p.isDead

releaseJump_NoChargingCheck(p) ==
  IF ~p.isOnGround \/ p.isDead THEN [player |-> p, ret |-> FALSE]
  ELSE [ player |-> [p EXCEPT !.isCharging = FALSE,
                               !.vx = LaunchV(p.chargeTime, MinVx, MaxVx),
                               !.vy = LaunchV(p.chargeTime, MinVy, MaxVy),
                               !.isOnGround = FALSE],
         ret |-> TRUE ]

releaseJump_KeepsCharging(p) ==
  IF ~CanRelease(p) THEN [player |-> p, ret |-> FALSE]
  ELSE [ player |-> [p EXCEPT !.vx = LaunchV(p.chargeTime, MinVx, MaxVx),
                               !.vy = LaunchV(p.chargeTime, MinVy, MaxVy),
                               !.isOnGround = FALSE],
         ret |-> TRUE ]

releaseJump(p) ==
  IF ~CanRelease(p) THEN [player |-> p, ret |-> FALSE]
  ELSE [ player |-> [p EXCEPT !.isCharging = FALSE,
                               !.vx = LaunchV(p.chargeTime, MinVx, MaxVx),
                               !.vy = LaunchV(p.chargeTime, MinVy, MaxVy),
                               !.isOnGround = FALSE],
         ret |-> TRUE ]

(* this.vy += gravity*dt; this.worldX += vx*dt; this.worldY += vy*dt *)
Integrate(p, dt) ==
  LET vy1 == p.vy + (Vel(Gravity) * dt) \div TimeUnit
  IN  [p EXCEPT !.vy = vy1,
                !.worldX = p.worldX + p.vx * dt,
                !.worldY = p.worldY + vy1 * dt]

horizontalOverlap(p, platform) ==
  pRight(p) > left(platform) /\ left(p) < right(platform)

crossedSurface_PostMoveOnly(prevBottom, p, platform) ==
  bottom(p) >= top(platform) /\ top(p) <= top(platform) + platform.height

crossedSurface_Strict(prevBottom, p, platform) ==
  prevBottom < top(platform) /\ bottom(p) >= top(platform)

crossedSurface(prevBottom, p, platform) ==
  prevBottom <= top(platform) /\ bottom(p) >= top(platform)

Hits(prevBottom, p, plats) ==
  { i \in 1..Len(plats) : horizontalOverlap(p, plats[i])
                          /\ crossedSurface(prevBottom, p, plats[i]) }

FirstOf_Last(S) == CHOOSE i \in S : \A j \in S : i >= j

(* the loop breaks at the first match *)
FirstOf(S) == CHOOSE i \in S : \A j \in S : i <= j

Collide_KeepsVx(prevBottom, p, plats) ==
  LET hits == Hits(prevBottom, p, plats)
  IN  IF p.vy >= 0 /\ hits # {}
      THEN [p EXCEPT !.worldY = top(plats[FirstOf(hits)]) - Px(PlayerHeight),
                     !.vy = 0, !.isOnGround = TRUE]
      ELSE p

Collide_AnyDirection(prevBottom, p, plats) ==
  LET hits == Hits(prevBottom, p, plats)
  IN  IF hits # {}
      THEN [p EXCEPT !.worldY = top(plats[FirstOf(hits)]) - Px(PlayerHeight),
                     !.vy = 0, !.vx = 0, !.isOnGround = TRUE]
      ELSE p

(* The collision loop: snap to the first platform, in list order, that is   *)
(* overlapped and whose surface was crossed.                                *)
Collide(prevBottom, p, plats) ==
  LET hits == Hits(prevBottom, p, plats)
  IN  IF p.vy >= 0 /\ hits # {}
      THEN [p EXCEPT !.worldY = top(plats[FirstOf(hits)]) - Px(PlayerHeight),
                     !.vy = 0, !.vx = 0, !.isOnGround = TRUE]
      ELSE p

FellOut_NoMargin(p, worldHeight) == p.worldY > worldHeight

FellOut(p, worldHeight) == p.worldY > worldHeight + Px(DeathMargin)

update_ZeroOnDeath(p, dt, plats, worldHeight) ==
  IF p.isDead THEN p
  ELSE LET p1 == IF p.isCharging THEN [p EXCEPT !.chargeTime = p.chargeTime + dt] ELSE p
           p2 == IF ~p1.isOnGround THEN Collide(bottom(p1), Integrate(p1, dt), plats) ELSE p1
       IN  IF FellOut(p2, worldHeight)
           THEN [p2 EXCEPT !.isDead = TRUE, !.vx = 0, !.vy = 0] ELSE p2

update_NoDeadGuard(p, dt, plats, worldHeight) ==
  LET p1 == IF p.isCharging THEN [p EXCEPT !.chargeTime = p.chargeTime + dt] ELSE p
      p2 == IF ~p1.isOnGround THEN Collide(bottom(p1), Integrate(p1, dt), plats) ELSE p1
  IN  IF FellOut(p2, worldHeight) THEN [p2 EXCEPT !.isDead = TRUE] ELSE p2

update(p, dt, plats, worldHeight) ==
  IF p.isDead THEN p
  ELSE LET p1 == IF p.isCharging THEN [p EXCEPT !.chargeTime = p.chargeTime + dt] ELSE p
           p2 == IF ~p1.isOnGround THEN Collide(bottom(p1), Integrate(p1, dt), plats) ELSE p1
       IN  IF FellOut(p2, worldHeight) THEN [p2 EXCEPT !.isDead = TRUE] ELSE p2

----------------------------------------------------------------------------
(* Platform *)

Platform(worldX, worldY, width, height) ==
  [ worldX |-> worldX, worldY |-> worldY, width |-> width, height |-> height,
    landed |-> FALSE ]

----------------------------------------------------------------------------
(* Camera *)

ReferenceWidth == 800

(* scale = canvasWidth / referenceWidth is kept as the fraction scaleN/scaleD; *)
(* followOffsetX = canvasWidth * 0.3 is kept in tenths of a screen px.         *)
Camera(canvasWidth, canvasHeight) ==
  [ canvasWidth |-> canvasWidth, canvasHeight |-> canvasHeight,
    scaleN |-> canvasWidth, scaleD |-> ReferenceWidth,
    followOffsetX10 |-> canvasWidth * 3,
    x |-> 0, y |-> 0 ]

(* n (screen px) / scale, on the position grid *)
ToWorld(n, cam) == (n * cam.scaleD * PosUnit) \div cam.scaleN

follow_Unscaled(cam, worldX) ==
  [cam EXCEPT !.x = worldX - (cam.followOffsetX10 * PosUnit) \div 10]

(* this.x = worldX - followOffsetX / scale *)
follow(cam, worldX) ==
  [cam EXCEPT !.x = worldX - (cam.followOffsetX10 * cam.scaleD * PosUnit) \div (10 * cam.scaleN)]

(* exact fractions num/den in lowest terms, den > 0 *)
RECURSIVE GCD(_, _)
GCD(a, b) == IF b = 0 THEN a ELSE GCD(b, a % b)

Frac(n, d) ==
  LET g == GCD(Abs(n), d)
  IN  [ num |-> n \div g, den |-> d \div g ]

(* this.scale *)
Scale(cam) == Frac(cam.scaleN, cam.scaleD)

toScreenX_NoOffset(cam, worldX) ==
  Frac(worldX * Scale(cam).num, Scale(cam).den * PosUnit)

(* (worldX - this.x) * scale, in screen px, as an exact fraction *)
toScreenX(cam, worldX) ==
  Frac((worldX - cam.x) * Scale(cam).num, Scale(cam).den * PosUnit)

----------------------------------------------------------------------------
(* PlatformManager *)

PlatformHeight == 16
InitialSpawns  == 8
StarterX       == 80
PruneMargin    == 200
SpawnMargin    == 600

(* Math.round(worldDim * pct/100) where worldDim = canvasDim / camera.scale *)
PctOfWorld(canvasDim, cam, pct) ==
  MathRound(canvasDim * cam.scaleD * pct, cam.scaleN * 100)

PlatWOf(canvasWidth, cam)   == PctOfWorld(canvasWidth, cam, 18)
MinGapXOf_Swapped(canvasWidth, cam) == PctOfWorld(canvasWidth, cam, 40)
MinGapXOf(canvasWidth, cam) == PctOfWorld(canvasWidth, cam, 22)
MaxGapXOf(canvasWidth, cam) == PctOfWorld(canvasWidth, cam, 40)
GapYOf(canvasHeight, cam)   == PctOfWorld(canvasHeight, cam, 15)

PMConfig(canvasWidth, canvasHeight, cam) ==
  [ platformWidth  |-> PlatWOf(canvasWidth, cam),
    platformHeight |-> PlatformHeight,
    minGapX        |-> MinGapXOf(canvasWidth, cam),
    maxGapX        |-> MaxGapXOf(canvasWidth, cam),
    minGapY        |-> -GapYOf(canvasHeight, cam),
    maxGapY        |-> GapYOf(canvasHeight, cam),
    floorY         |-> PctOfWorld(canvasHeight, cam, 82),
    minY           |-> PctOfWorld(canvasHeight, cam, 12) ]

_last(plats) == plats[Len(plats)]

_spawnNext_NoClamp(pm) ==
  LET cfg  == pm.config
      last == _last(pm.platforms)
      s1   == pm.seed
      s2   == NextSeed(s1)
      gapX == RandBetween(s1, cfg.minGapX, cfg.maxGapX)
      gapY == RandBetween(s2, cfg.minGapY, cfg.maxGapY)
  IN  [pm EXCEPT !.platforms = Append(pm.platforms,
                     Platform(right(last) + gapX, last.worldY + gapY,
                              Px(cfg.platformWidth), Px(cfg.platformHeight))),
                 !.seed = NextSeed(s2)]

_spawnNext_FromLeftEdge(pm) ==
  LET cfg  == pm.config
      last == _last(pm.platforms)
      s1   == pm.seed
      s2   == NextSeed(s1)
      gapX == RandBetween(s1, cfg.minGapX, cfg.maxGapX)
      gapY == RandBetween(s2, cfg.minGapY, cfg.maxGapY)
      x    == last.worldX + gapX
      y    == Max(Px(cfg.minY), Min(Px(cfg.floorY), last.worldY + gapY))
  IN  [pm EXCEPT !.platforms = Append(pm.platforms,
                     Platform(x, y, Px(cfg.platformWidth), Px(cfg.platformHeight))),
                 !.seed = NextSeed(s2)]

(* One _spawnNext: two draws of Math.random(), gapX first.  The result is  *)
(* the list with the new platform appended and the generator's new state.  *)
_spawnNext(pm) ==
  LET cfg  == pm.config
      last == _last(pm.platforms)
      s1   == pm.seed
      s2   == NextSeed(s1)
      gapX == RandBetween(s1, cfg.minGapX, cfg.maxGapX)
      gapY == RandBetween(s2, cfg.minGapY, cfg.maxGapY)
      x    == right(last) + gapX
      y    == Max(Px(cfg.minY), Min(Px(cfg.floorY), last.worldY + gapY))
  IN  [pm EXCEPT !.platforms = Append(pm.platforms,
                     Platform(x, y, Px(cfg.platformWidth), Px(cfg.platformHeight))),
                 !.seed = NextSeed(s2)]

RECURSIVE SpawnTimes(_, _)
SpawnTimes(pm, n) == IF n = 0 THEN pm ELSE SpawnTimes(_spawnNext(pm), n - 1)

_spawnInitial(pm) ==
  LET cfg == pm.config
      starter == Platform(Px(StarterX), Px(cfg.floorY),
                          Px(MathRound(cfg.platformWidth * 3, 2)), Px(cfg.platformHeight))
  IN  SpawnTimes([pm EXCEPT !.platforms = Append(pm.platforms, starter)], InitialSpawns)

PlatformManager(canvasWidth, canvasHeight, cam, s) ==
  _spawnInitial([ canvasWidth |-> canvasWidth, canvasHeight |-> canvasHeight,
                  config |-> PMConfig(canvasWidth, canvasHeight, cam),
                  platforms |-> << >>, seed |-> s ])

Prune_BehindPlayer(plats, cam) ==
  SelectSeq(plats, LAMBDA p : left(p) > cam.x + ToWorld(cam.followOffsetX10, cam) \div 10)

Prune_ByLeftEdge(plats, cam) == SelectSeq(plats, LAMBDA p : left(p) > cam.x - Px(PruneMargin))

Prune(plats, cam) == SelectSeq(plats, LAMBDA p : right(p) > cam.x - Px(PruneMargin))

(* while (this._last().worldX < camera.x + visibleWorldWidth + 600) this._spawnNext() *)
SpawnLimit(pm, cam) == cam.x + ToWorld(pm.canvasWidth, cam) + Px(SpawnMargin)

SpawnAhead_Once(pm, limit) ==
  IF _last(pm.platforms).worldX < limit THEN _spawnNext(pm) ELSE pm

RECURSIVE SpawnAhead(_, _)
SpawnAhead(pm, limit) ==
  IF _last(pm.platforms).worldX < limit THEN SpawnAhead(_spawnNext(pm), limit) ELSE pm

pmUpdate(pm, cam) ==
  SpawnAhead([pm EXCEPT !.platforms = Prune(pm.platforms, cam)], SpawnLimit(pm, cam))

(* The PlatformManager object as the state variables hold it *)
ThePM == [ canvasWidth |-> canvas.width, canvasHeight |-> canvas.height,
           config |-> config, platforms |-> platforms, seed |-> seed ]

----------------------------------------------------------------------------
(* InputHandler *)

Space == "Space"

triggerPress(ih, code) ==
  [ih EXCEPT !.justPressed = IF code \in ih.keys THEN @ ELSE @ \cup {code},
             !.keys = @ \cup {code}]

triggerRelease_Unguarded(ih, code) ==
  [ih EXCEPT !.keys = @ \ {code}, !.justReleased = @ \cup {code}]

triggerRelease(ih, code) ==
  IF code \in ih.keys
  THEN [ih EXCEPT !.keys = @ \ {code}, !.justReleased = @ \cup {code}]
  ELSE ih

isJustPressed(code)  == code \in justPressed
isJustReleased(code) == code \in justReleased
isHeld(code)         == code \in keys

TheInput == [ keys |-> keys, justPressed |-> justPressed, justReleased |-> justReleased ]

SetInput(ih) ==
  /\ keys' = ih.keys
  /\ justPressed' = ih.justPressed
  /\ justReleased' = ih.justReleased

(* ghost.  Between ticks: whether a handler has executed _justPressed.add *)
(* or _justReleased.add since the last flush.  Right after a tick (tick =  *)
(* TRUE): what the tick's isJustPressed / isJustReleased returned, the     *)
(* edges that had been written for it, and the held set before its flush.  *)
NoIO == [ tick |-> FALSE, pressEdge |-> FALSE, releaseEdge |-> FALSE,
          sawPress |-> FALSE, sawRelease |-> FALSE,
          hadPress |-> FALSE, hadRelease |-> FALSE, held |-> {} ]

Wrote(press, release) ==
  io' = [NoIO EXCEPT !.pressEdge = io.pressEdge \/ press,
                     !.releaseEdge = io.releaseEdge \/ release]

(* window "keydown" listener *)
KeyDown ==
  /\ SetInput([TheInput EXCEPT !.justPressed = IF Space \in keys THEN @ ELSE @ \cup {Space},
                               !.keys = @ \cup {Space}])
  /\ Wrote(Space \notin keys, FALSE)
  /\ UNCHANGED << gameVars, gestureVars, call, jumps, ghostLog, touches, ticks, visited >>

(* window "keyup" listener *)
KeyUp ==
  /\ SetInput([TheInput EXCEPT !.keys = @ \ {Space}, !.justReleased = @ \cup {Space}])
  /\ Wrote(FALSE, TRUE)
  /\ UNCHANGED << gameVars, gestureVars, call, jumps, ghostLog, touches, ticks, visited >>

(* Touch.  A finger is on the game canvas or on the debug overlay           *)
(* (_isUIElement); a touch event's target is the element first touched.     *)
Fingers == touches.game + touches.ui

(* window "touchstart" listener *)
TouchStart(onUI) ==
  /\ Fingers < MaxFingers
  /\ IF onUI
     THEN /\ touches' = [touches EXCEPT !.ui = @ + 1]
          /\ UNCHANGED << inputVars, io >>
     ELSE /\ touches' = [touches EXCEPT !.game = @ + 1]
          /\ SetInput([TheInput EXCEPT !.justPressed = @ \cup {Space},
                                       !.keys = @ \cup {Space}])
          /\ Wrote(TRUE, FALSE)
  /\ UNCHANGED << gameVars, gestureVars, call, jumps, ghostLog, ticks, visited >>

(* window "touchend" listener: releases when no finger is left on the screen *)
TouchEnd(onUI) ==
  /\ IF onUI
     THEN /\ touches.ui > 0
          /\ touches' = [touches EXCEPT !.ui = @ - 1]
          /\ UNCHANGED << inputVars, io >>
     ELSE /\ touches.game > 0
          /\ touches' = [touches EXCEPT !.game = @ - 1]
          /\ IF Fingers - 1 = 0
             THEN /\ SetInput([TheInput EXCEPT !.keys = @ \ {Space},
                                              !.justReleased = @ \cup {Space}])
                  /\ Wrote(FALSE, TRUE)
             ELSE UNCHANGED << inputVars, io >>
  /\ UNCHANGED << gameVars, gestureVars, call, jumps, ghostLog, ticks, visited >>

(* window "touchcancel" listener: releases whatever the target *)
TouchCancel(onUI) ==
  /\ IF onUI THEN touches.ui > 0 /\ touches' = [touches EXCEPT !.ui = @ - 1]
             ELSE touches.game > 0 /\ touches' = [touches EXCEPT !.game = @ - 1]
  /\ SetInput([TheInput EXCEPT !.keys = @ \ {Space}, !.justReleased = @ \cup {Space}])
  /\ Wrote(FALSE, TRUE)
  /\ UNCHANGED << gameVars, gestureVars, call, jumps, ghostLog, ticks, visited >>

flush_KeepsPressed ==
  /\ justReleased' = {}
  /\ UNCHANGED << justPressed, keys >>

flush_ClearsHeld ==
  /\ justPressed' = {}
  /\ justReleased' = {}
  /\ keys' = {}

flush ==
  /\ justPressed' = {}
  /\ justReleased' = {}
  /\ UNCHANGED keys

----------------------------------------------------------------------------
(* CameraInput: the gesture decoder *)

NoSignal == -1

ThresholdClosed == 10   \* THRESHOLD_CLOSED = 1.0
ThresholdOpen   == 25   \* THRESHOLD_OPEN   = 2.5

_triggerInput_Comparator(closed, r, th) ==
  IF r = NoSignal THEN [armsClosed |-> closed, event |-> "none"]
  ELSE IF ~closed /\ r < th.closed THEN [armsClosed |-> TRUE, event |-> "press"]
  ELSE IF closed /\ r > th.closed THEN [armsClosed |-> FALSE, event |-> "release"]
  ELSE [armsClosed |-> closed, event |-> "none"]

_triggerInput_NullAsZero(closed, r, th) ==
  IF ~closed /\ r < th.closed THEN [armsClosed |-> TRUE, event |-> "press"]
  ELSE IF closed /\ r > th.open THEN [armsClosed |-> FALSE, event |-> "release"]
  ELSE [armsClosed |-> closed, event |-> "none"]

_triggerInput_Inclusive(closed, r, th) ==
  IF r = NoSignal THEN [armsClosed |-> closed, event |-> "none"]
  ELSE IF ~closed /\ r <= th.closed THEN [armsClosed |-> TRUE, event |-> "press"]
  ELSE IF closed /\ r >= th.open THEN [armsClosed |-> FALSE, event |-> "release"]
  ELSE [armsClosed |-> closed, event |-> "none"]

_triggerInput_Level(closed, r, th) ==
  IF r = NoSignal THEN [armsClosed |-> closed, event |-> "none"]
  ELSE IF r < th.closed THEN [armsClosed |-> TRUE, event |-> "press"]
  ELSE IF r > th.open THEN [armsClosed |-> FALSE, event |-> "release"]
  ELSE [armsClosed |-> closed, event |-> "none"]

(* _triggerInput: the decoder's new state and the event it emits, if any *)
_triggerInput(closed, r, th) ==
  IF r = NoSignal THEN [armsClosed |-> closed, event |-> "none"]
  ELSE IF ~closed /\ r < th.closed THEN [armsClosed |-> TRUE, event |-> "press"]
  ELSE IF closed /\ r > th.open THEN [armsClosed |-> FALSE, event |-> "release"]
  ELSE [armsClosed |-> closed, event |-> "none"]

Deliver(ih, event) ==
  IF event = "press" THEN triggerPress(ih, Space)
  ELSE IF event = "release" THEN triggerRelease(ih, Space)
  ELSE ih

(* _onResults for a sample whose _calculateRatio result is r; c is the    *)
(* record of the call kept in the ghost variable call, l the pending       *)
(* asynchronous steps once the callback has run                            *)
_onResultsIn(r, c, l) ==
  LET d == _triggerInput(armsClosed, r, thresholds)
  IN  /\ ratio' = r
      /\ armsClosed' = d.armsClosed
      /\ SetInput(Deliver(TheInput, d.event))
      /\ Wrote(d.event = "press" /\ Space \notin keys, d.event = "release" /\ Space \in keys)
      /\ call' = c
      /\ loop' = l
      /\ UNCHANGED << thresholds, gameVars, jumps, updates, resizes, touches, ticks, visited >>

_onResultsAs(r, c) == _onResultsIn(r, c, loop)

_onResults(r) == _onResultsAs(r, call)

(* Pose results: no pose, or the landmarks of the shoulders (11, 12) and   *)
(* the wrists (15, 16), coordinates in thousandths of the frame.           *)
DistUnit == 1000
MinShoulderDist == 10     \* 0.01
MaxDist == 600

NoPose == [ poseLandmarks |-> FALSE ]

(* Math.sqrt, for the perfect squares the landmark sets produce *)
Sqrt(n) == CHOOSE k \in 0..MaxDist : k * k = n

_dist(a, b) ==
  LET dx == a.x - b.x
      dy == a.y - b.y
  IN  Sqrt(dx * dx + dy * dy)

_calculateRatio_ZeroOnly(res) ==
  IF ~res.poseLandmarks THEN NoSignal
  ELSE LET shoulderDist == _dist(res.lm11, res.lm12)
           wristDist    == _dist(res.lm15, res.lm16)
       IN  IF shoulderDist > 0 THEN (wristDist * RatioUnit) \div shoulderDist ELSE NoSignal

(* _calculateRatio: null without landmarks or with shoulders closer than    *)
(* 0.01, else wristDist / shoulderDist (in tenths, rounded down)            *)
_calculateRatio(res) ==
  IF ~res.poseLandmarks THEN NoSignal
  ELSE LET shoulderDist == _dist(res.lm11, res.lm12)
           wristDist    == _dist(res.lm15, res.lm16)
       IN  IF shoulderDist > MinShoulderDist
           THEN (wristDist * RatioUnit) \div shoulderDist ELSE NoSignal

(* ghost: the sample, the decoder's state before it and the event it emitted *)
LogSample(r) ==
  LET d == _triggerInput(armsClosed, r, thresholds)
  IN  /\ samples' = Append(samples, r)
      /\ closedBefore' = Append(closedBefore, armsClosed)
      /\ events' = IF d.event = "none" THEN events
                   ELSE Append(events, [kind |-> d.event, index |-> Len(samples)])

----------------------------------------------------------------------------
(* Game *)

(* worldHeight = canvas.height / camera.scale *)
WorldHeight(cv, cam) == ToWorld(cv.height, cam)

_initSystems_StarterScores(cv, s) ==
  LET cam0  == Camera(cv.width, cv.height)
      pm    == PlatformManager(cv.width, cv.height, cam0, s)
      first == pm.platforms[1]
      pl    == Player(first.worldX + first.width \div 2 - Px(16), top(first) - Px(48))
  IN  [ camera |-> follow(cam0, pl.worldX), config |-> pm.config,
        platforms |-> pm.platforms, seed |-> pm.seed, player |-> pl,
        score |-> 0, gameOver |-> FALSE ]

(* _initSystems: camera, platform manager, player on the starter platform *)
_initSystems(cv, s) ==
  LET cam0  == Camera(cv.width, cv.height)
      pm    == PlatformManager(cv.width, cv.height, cam0, s)
      first == pm.platforms[1]
      plats == [pm.platforms EXCEPT ![1].landed = TRUE]
      pl    == Player(first.worldX + first.width \div 2 - Px(16), top(first) - Px(48))
  IN  [ camera |-> follow(cam0, pl.worldX), config |-> pm.config,
        platforms |-> plats, seed |-> pm.seed, player |-> pl,
        score |-> 0, gameOver |-> FALSE ]

_playerIsStandingOn(p, platform) ==
  /\ pRight(p) > left(platform)
  /\ left(p) < right(platform)
  /\ p.isOnGround
  /\ Abs(bottom(p) - top(platform)) < Px(4)

Scored(p, plats) ==
  { i \in 1..Len(plats) : ~plats[i].landed /\ _playerIsStandingOn(p, plats[i]) }

_checkScore_NoFlag(p, plats) == plats

_checkScore_Momentary(p, plats) ==
  [ i \in 1..Len(plats) |-> [plats[i] EXCEPT !.landed = _playerIsStandingOn(p, plats[i])] ]

(* _checkScore: the platform list with the newly credited platforms flagged *)
_checkScore(p, plats) ==
  [ i \in 1..Len(plats) |->
      IF i \in Scored(p, plats) THEN [plats[i] EXCEPT !.landed = TRUE] ELSE plats[i] ]

SetGame(g) ==
  /\ camera' = g.camera
  /\ config' = g.config
  /\ platforms' = g.platforms
  /\ seed' = g.seed
  /\ player' = g.player
  /\ score' = g.score
  /\ gameOver' = g.gameOver

(* ghost: the platforms a player rests on, by their left edges *)
StoodOn(p, plats) ==
  { plats[i].worldX : i \in { j \in 1..Len(plats) :
        p.isOnGround /\ bottom(p) = top(plats[j]) /\ horizontalOverlap(p, plats[j]) } }

_update_ReleaseFirst(dt) ==
  LET p0  == player
      rel == IF isJustReleased(Space) THEN releaseJump(p0) ELSE [player |-> p0, ret |-> FALSE]
      p2  == IF isJustPressed(Space) THEN startCharge(rel.player) ELSE rel.player
      p3  == update(p2, dt, platforms, WorldHeight(canvas, camera))
      cam == follow(camera, p3.worldX)
      pm  == pmUpdate(ThePM, cam)
  IN  /\ SetGame([ camera |-> cam, config |-> config,
                   platforms |-> _checkScore(p3, pm.platforms), seed |-> pm.seed,
                   player |-> p3,
                   score |-> score + Cardinality(Scored(p3, pm.platforms)),
                   gameOver |-> p3.isDead ])
      /\ jumps' = IF rel.ret THEN jumps + 1 ELSE jumps
      /\ call' = [ op |-> "frame", pre |-> p0, dt |-> dt, ret |-> rel.ret ]
      /\ visited' = visited \cup StoodOn(p3, pm.platforms)

_update_LateGameOver(dt) ==
  LET p0  == player
      p1  == IF isJustPressed(Space) THEN startCharge(p0) ELSE p0
      rel == IF isJustReleased(Space) THEN releaseJump(p1) ELSE [player |-> p1, ret |-> FALSE]
      p3  == update(rel.player, dt, platforms, WorldHeight(canvas, camera))
      cam == follow(camera, p3.worldX)
      pm  == pmUpdate(ThePM, cam)
  IN  /\ SetGame([ camera |-> cam, config |-> config,
                   platforms |-> _checkScore(p3, pm.platforms), seed |-> pm.seed,
                   player |-> p3,
                   score |-> score + Cardinality(Scored(p3, pm.platforms)),
                   gameOver |-> rel.player.isDead ])
      /\ jumps' = IF rel.ret THEN jumps + 1 ELSE jumps
      /\ call' = [ op |-> "frame", pre |-> p0, dt |-> dt, ret |-> rel.ret ]
      /\ visited' = visited \cup StoodOn(p3, pm.platforms)

(* _update(dt) while the game is running *)
_update(dt) ==
  LET p0  == player
      p1  == IF isJustPressed(Space) THEN startCharge(p0) ELSE p0
      rel == IF isJustReleased(Space) THEN releaseJump(p1) ELSE [player |-> p1, ret |-> FALSE]
      p3  == update(rel.player, dt, platforms, WorldHeight(canvas, camera))
      cam == follow(camera, p3.worldX)
      pm  == pmUpdate(ThePM, cam)
  IN  /\ SetGame([ camera |-> cam, config |-> config,
                   platforms |-> _checkScore(p3, pm.platforms), seed |-> pm.seed,
                   player |-> p3,
                   score |-> score + Cardinality(Scored(p3, pm.platforms)),
                   gameOver |-> p3.isDead ])
      /\ jumps' = IF rel.ret THEN jumps + 1 ELSE jumps
      /\ call' = [ op |-> "frame", pre |-> p0, dt |-> dt, ret |-> rel.ret ]
      /\ visited' = visited \cup StoodOn(p3, pm.platforms)

(* _update(dt) in the game-over state: Space restarts *)
_updateGameOver(dt) ==
  /\ IF isJustPressed(Space) THEN SetGame(_initSystems(canvas, seed)) /\ visited' = {}
                                ELSE UNCHANGED << camera, config, platforms, seed, player, score, gameOver, visited >>
  /\ call' = [ op |-> "frame", pre |-> player, dt |-> dt, ret |-> FALSE ]
  /\ UNCHANGED jumps

(* The behaviours explored: a bounded number of jumps, released after one  *)
(* of the hold times of HoldTicks or any over-charge, and charges held for *)
(* at most MaxChargeTicks.                                                  *)
HoldTicks == { 0, 1, 9, 16, 23, 30 }

MayRelease(p) ==
  /\ jumps < MaxJumps
  /\ p.chargeTime \in HoldTicks \/ p.chargeTime > MaxChargeT

MayCharge(p, dt) == p.isCharging /\ dt > 0 => p.chargeTime + dt <= MaxChargeTicks

FrameInBounds(dt) ==
  gameOver \/
    LET p1  == IF isJustPressed(Space) THEN startCharge(player) ELSE player
        rel == IF isJustReleased(Space) THEN releaseJump(p1) ELSE [player |-> p1, ret |-> FALSE]
    IN  /\ rel.ret => MayRelease(p1)
        /\ MayCharge(rel.player, dt)

(* One animation frame: _loop = _update, _draw, input.flush *)
Frame(dt) ==
  /\ FrameInBounds(dt)
  /\ IF gameOver THEN _updateGameOver(dt) ELSE _update(dt)
  /\ flush
  /\ io' = [ tick |-> TRUE, pressEdge |-> FALSE, releaseEdge |-> FALSE,
             sawPress |-> isJustPressed(Space), sawRelease |-> isJustReleased(Space),
             hadPress |-> io.pressEdge, hadRelease |-> io.releaseEdge,
             held |-> keys ]
  /\ UNCHANGED << canvas, gestureVars, ghostLog, touches >>

----------------------------------------------------------------------------
(* Inputs the specifications draw from *)

CanvasSizes == { [width |-> 800, height |-> 600], [width |-> 400, height |-> 700] }
Seeds       == { 0, 5 }
FrameDts    == { 0, 1 }          \* dt = min(elapsed, 0.05): 0 on the first frame
StepDts     == { 0, 1, 4 }       \* Player.update called directly: any step size
Ratios      == { NoSignal, 5, 10, 12, 15, 18, 25, 26 }
ThresholdSets == { [closed |-> ThresholdClosed, open |-> ThresholdOpen],
                   [closed |-> 10, open |-> 18] }
CamSteps    == { -400, 0, 35, 700, 1200 }   \* camera displacement between updates, px

NoCall == [ op |-> "none", pre |-> Player(0, 0), dt |-> 0, ret |-> FALSE ]


InitGame(cv, s) ==
  LET g == _initSystems(cv, s)
  IN  /\ canvas = cv
      /\ camera = g.camera
      /\ config = g.config
      /\ platforms = g.platforms
      /\ seed = g.seed
      /\ player = g.player
      /\ score = g.score
      /\ gameOver = g.gameOver

InitInput ==
  /\ keys = {}
  /\ justPressed = {}
  /\ justReleased = {}
  /\ touches = [game |-> 0, ui |-> 0]

(* no camera started, no frame loop *)
NoLoop ==
  [ ready |-> FALSE, setOptions |-> 0, getUserMedia |-> 0, listeners |-> 0,
    loading |-> FALSE, sending |-> 0, scheduled |-> 0, restarts |-> 0 ]

InitGesture(th) ==
  /\ armsClosed = FALSE
  /\ ratio = NoSignal
  /\ thresholds = th
  /\ loop = NoLoop

InitGhost ==
  /\ call = NoCall
  /\ jumps = 0
  /\ updates = 0
  /\ samples = << >>
  /\ closedBefore = << >>
  /\ events = << >>
  /\ io = NoIO
  /\ ticks = 0
  /\ visited = {}
  /\ resizes = 0

(* The running game: keyboard events and animation frames *)
Init ==
  /\ \E cv \in CanvasSizes, s \in Seeds : InitGame(cv, s)
  /\ InitInput
  /\ InitGesture([closed |-> ThresholdClosed, open |-> ThresholdOpen])
  /\ InitGhost

Tick == \E dt \in FrameDts : Frame(dt) /\ UNCHANGED ticks

Next == KeyDown \/ KeyUp \/ Tick

Spec == Init /\ [][Next]_vars

----------------------------------------------------------------------------
(* The running game in a window that is resized: the "resize" listener   *)
(* takes the window's new size and calls _initSystems.                    *)

Resize_KeepsScore ==
  \E cv \in CanvasSizes :
    /\ resizes < MaxResizes
    /\ cv # canvas
    /\ canvas' = cv
    /\ SetGame([_initSystems(cv, seed) EXCEPT !.score = score])
    /\ visited' = {}
    /\ call' = [ op |-> "resize", pre |-> player, dt |-> 0, ret |-> FALSE ]
    /\ resizes' = resizes + 1
    /\ UNCHANGED << inputVars, gestureVars, jumps, updates, samples, closedBefore, events,
                    touches, io, ticks >>

(* the "resize" listener: _resize() takes the window's size, _initSystems() *)
(* rebuilds camera, platforms and player                                    *)
Resize ==
  \E cv \in CanvasSizes :
    /\ resizes < MaxResizes
    /\ cv # canvas
    /\ canvas' = cv
    /\ SetGame(_initSystems(cv, seed))
    /\ visited' = {}
    /\ call' = [ op |-> "resize", pre |-> player, dt |-> 0, ret |-> FALSE ]
    /\ resizes' = resizes + 1
    /\ UNCHANGED << inputVars, gestureVars, jumps, updates, samples, closedBefore, events,
                    touches, io, ticks >>

RunInit ==
  /\ InitGame([width |-> 800, height |-> 600], 5)
  /\ InitInput
  /\ InitGesture([closed |-> ThresholdClosed, open |-> ThresholdOpen])
  /\ InitGhost

(* frames of the full step, 0.05 s *)
RunTick == Frame(1) /\ UNCHANGED ticks

RunNext == KeyDown \/ KeyUp \/ RunTick \/ Resize

RunSpec == RunInit /\ [][RunNext]_vars

----------------------------------------------------------------------------
(* The Camera alone: canvases of several widths (scale below, at and above *)
(* 1), follow and toScreenX called with any of the world X of WorldXs, in   *)
(* grid units.                                                              *)

CameraCanvases == { [width |-> w, height |-> 600] : w \in {320, 400, 800, 1200, 1600} }
WorldXs == { -Px(500), -7, 0, 1, Px(98), Px(240), Px(1000) + 13, Px(5000) }

CameraCall(op, cam, wx) ==
  /\ camera' = cam
  /\ call' = [ op |-> op, pre |-> NoCall.pre, dt |-> 0, ret |-> FALSE,
               worldX |-> wx, screenX |-> toScreenX(cam, wx) ]
  /\ UNCHANGED << canvas, config, platforms, seed, player, score, gameOver, jumps,
                  inputVars, gestureVars, ghostLog, rest >>

DoFollow == \E wx \in WorldXs : CameraCall("follow", follow(camera, wx), wx)

DoToScreenX == \E wx \in WorldXs : CameraCall("toScreenX", camera, wx)

CameraInit ==
  /\ \E cv \in CameraCanvases : InitGame(cv, 0)
  /\ InitInput
  /\ InitGesture([closed |-> ThresholdClosed, open |-> ThresholdOpen])
  /\ InitGhost

CameraNext == DoFollow \/ DoToScreenX

CameraSpec == CameraInit /\ [][CameraNext]_vars

----------------------------------------------------------------------------
(* The Player object driven through its methods in any order, against the  *)
(* platforms of a freshly constructed game.                                 *)

PlayerCall(op, dt, res) ==
  /\ player' = res.player
  /\ call' = [ op |-> op, pre |-> player, dt |-> dt, ret |-> res.ret ]
  /\ UNCHANGED << canvas, camera, config, platforms, seed, score, gameOver,
                  inputVars, gestureVars, ghostLog, rest >>

DoStartCharge ==
  /\ PlayerCall("startCharge", 0, [player |-> startCharge(player), ret |-> FALSE])
  /\ UNCHANGED jumps

DoReleaseJump ==
  LET res == releaseJump(player)
  IN  /\ res.ret => MayRelease(player)
      /\ PlayerCall("releaseJump", 0, res)
      /\ jumps' = IF res.ret THEN jumps + 1 ELSE jumps

DoUpdate ==
  \E dt \in StepDts :
    LET p == update(player, dt, platforms, WorldHeight(canvas, camera))
    IN  /\ MayCharge(player, dt)
        /\ PlayerCall("update", dt, [player |-> p, ret |-> FALSE])
        /\ UNCHANGED jumps

PlayerNext == DoStartCharge \/ DoReleaseJump \/ DoUpdate

PlayerSpec == Init /\ [][PlayerNext]_vars

----------------------------------------------------------------------------
(* Player.update against any platform array: lists of two or three          *)
(* platforms that overlap each other horizontally at different heights, in  *)
(* any order, and a player dropped above them.                              *)

StackPlatforms ==
  { Platform(Px(x), Px(y), Px(144), Px(PlatformHeight)) : x \in {100, 120}, y \in {300, 320, 340} }

StackLists ==
  { << a, b >> : a \in StackPlatforms, b \in StackPlatforms }
    \cup { << a, b, c >> : a \in StackPlatforms, b \in StackPlatforms, c \in StackPlatforms }

StackDrops == { Player(Px(150), Px(y - PlayerHeight)) : y \in {290, 300} }

StackInit ==
  /\ canvas = [width |-> 800, height |-> 600]
  /\ camera = Camera(800, 600)
  /\ config = PMConfig(800, 600, Camera(800, 600))
  /\ platforms \in { l \in StackLists : \A i, j \in 1..Len(l) : i # j => l[i] # l[j] }
  /\ seed = 0
  /\ player \in StackDrops
  /\ score = 0
  /\ gameOver = FALSE
  /\ InitInput
  /\ InitGesture([closed |-> ThresholdClosed, open |-> ThresholdOpen])
  /\ InitGhost

StackNext == DoUpdate

StackSpec == StackInit /\ [][StackNext]_vars

----------------------------------------------------------------------------
(* The decoder fed with pose results: shoulders 0, 0.005, 0.01, 0.02 or 0.2 *)
(* apart, wrists 0.01 to 0.52 apart, or no pose at all.  The distances are   *)
(* chosen so that no quotient falls between a threshold and the next tenth.  *)

Point(x, y) == [ x |-> x, y |-> y ]

ShoulderOffsets == { Point(0, 0), Point(3, 4), Point(6, 8), Point(12, 16), Point(120, 160) }
WristOffsets    == { Point(6, 8), Point(18, 24), Point(20, 48),
                     Point(60, 80), Point(180, 240), Point(200, 480) }

PoseResults ==
  { NoPose } \cup
  { [ poseLandmarks |-> TRUE,
      lm11 |-> Point(400, 300), lm12 |-> Point(400 + so.x, 300 + so.y),
      lm15 |-> Point(300 + wo.x, 500), lm16 |-> Point(300, 500 - wo.y) ]
    : so \in ShoulderOffsets, wo \in WristOffsets }

PoseSample ==
  \E res \in PoseResults :
    /\ _onResultsAs(_calculateRatio(res),
                    [ op |-> "onResults", pre |-> NoCall.pre, dt |-> 0, ret |-> FALSE,
                      pose |-> res, closedBefore |-> armsClosed, inputBefore |-> TheInput ])
    /\ UNCHANGED << samples, closedBefore, events >>

PoseInit ==
  /\ InitGame([width |-> 800, height |-> 600], 0)
  /\ InitInput
  /\ InitGesture([closed |-> ThresholdClosed, open |-> ThresholdOpen])
  /\ InitGhost

PoseNext == PoseSample

PoseSpec == PoseInit /\ [][PoseNext]_vars

----------------------------------------------------------------------------
(* The PlatformManager driven by a camera that moves freely.  The draws of *)
(* one update follow the generator; between updates its hidden state is    *)
(* either kept or taken to be 0, so that the draws of different updates    *)
(* are not tied to each other.                                             *)

DoPMUpdate ==
  \E d \in CamSteps, s \in {seed, 0} :
    LET cam == [camera EXCEPT !.x = camera.x + Px(d)]
        pm  == pmUpdate([ThePM EXCEPT !.seed = s], cam)
    IN  /\ updates < MaxUpdates
        /\ camera' = cam
        /\ platforms' = pm.platforms
        /\ seed' = pm.seed
        /\ updates' = updates + 1
        /\ call' = [ op |-> "pmUpdate", pre |-> NoCall.pre, dt |-> 0, ret |-> FALSE,
                     plats |-> platforms ]
        /\ UNCHANGED << canvas, config, player, score, gameOver, jumps,
                        inputVars, gestureVars, samples, closedBefore, events, resizes, rest >>

PlatformInit ==
  /\ \E cv \in CanvasSizes, s \in 0..(RandMod - 1) : InitGame(cv, s)
  /\ InitInput
  /\ InitGesture([closed |-> ThresholdClosed, open |-> ThresholdOpen])
  /\ InitGhost

PlatformNext == DoPMUpdate

PlatformSpec == PlatformInit /\ [][PlatformNext]_vars

----------------------------------------------------------------------------
(* The gesture decoder fed a sequence of samples *)

GestureInit ==
  /\ InitGame([width |-> 800, height |-> 600], 0)
  /\ InitInput
  /\ \E th \in ThresholdSets : InitGesture(th)
  /\ InitGhost

Sample == \E r \in Ratios : Len(samples) < MaxSamples /\ _onResults(r) /\ LogSample(r)

GestureNext == Sample

GestureSpec == GestureInit /\ [][GestureNext]_vars

----------------------------------------------------------------------------
(* The decoder with the thresholds set from the debug panel's sliders      *)
(* (thresholdClosed 0.3..2.0, thresholdOpen 1.0..4.0) between samples.     *)

SliderClosed == { 3, 10, 20 }
SliderOpen   == { 10, 18, 25, 40 }
ConfigRatios == { 5, 15, 26 }

(* the slider's "input" listener: config.set(key, parseFloat(el.value)) *)
ConfigSet(key, val) ==
  /\ thresholds' = [thresholds EXCEPT ![key] = val]
  /\ UNCHANGED << armsClosed, ratio, loop, gameVars, inputVars, call, jumps, ghostLog, rest >>

SetThreshold ==
  \/ \E v \in SliderClosed : thresholds.closed # v /\ ConfigSet("closed", v)
  \/ \E v \in SliderOpen : thresholds.open # v /\ ConfigSet("open", v)

ConfigSample == \E r \in ConfigRatios : Len(samples) < MaxSamples /\ _onResults(r) /\ LogSample(r)

ConfigInit ==
  /\ InitGame([width |-> 800, height |-> 600], 0)
  /\ InitInput
  /\ InitGesture([closed |-> 10, open |-> 18])
  /\ InitGhost

ConfigNext == SetThreshold \/ ConfigSample

ConfigSpec == ConfigInit /\ [][ConfigNext]_vars

----------------------------------------------------------------------------
(* The running game with every input source: keyboard, touch, the gesture *)
(* decoder, and animation frames, in any interleaving.                     *)

GestureRatios == { NoSignal, 5, 26 }

Gesture == \E r \in GestureRatios : _onResults(r) /\ UNCHANGED << samples, closedBefore, events >>

Touch == \E onUI \in BOOLEAN : TouchStart(onUI) \/ TouchEnd(onUI) \/ TouchCancel(onUI)

InputInit ==
  /\ InitGame([width |-> 800, height |-> 600], 0)
  /\ InitInput
  /\ InitGesture([closed |-> ThresholdClosed, open |-> ThresholdOpen])
  /\ InitGhost

InputTick == \E dt \in FrameDts : ticks < MaxTicks /\ Frame(dt) /\ ticks' = ticks + 1

InputNext == KeyDown \/ KeyUp \/ Touch \/ Gesture \/ InputTick

InputSpec == InputInit /\ [][InputNext]_vars

----------------------------------------------------------------------------
(* The decoder and the input handler with keyboard and touch events between *)
(* the samples; the flush at the end of a tick may come at any time.        *)

GestureLogged ==
  \E r \in GestureRatios :
    /\ _onResultsAs(r, [ op |-> "onResults", pre |-> NoCall.pre, dt |-> 0, ret |-> FALSE,
                         closedBefore |-> armsClosed, inputBefore |-> TheInput ])
    /\ UNCHANGED << samples, closedBefore, events >>

EndOfTick ==
  /\ flush
  /\ UNCHANGED << gameVars, gestureVars, call, jumps, ghostLog, rest >>

MixedInit == InputInit

MixedNext == GestureLogged \/ KeyDown \/ KeyUp \/ Touch \/ EndOfTick

MixedSpec == MixedInit /\ [][MixedNext]_vars

----------------------------------------------------------------------------
(* CameraInput's asynchronous steps.  loop.setOptions and loop.getUserMedia *)
(* count the _restartCamera / _startCamera calls suspended at their awaits,  *)
(* loop.listeners the "loadeddata" listeners on the video element,           *)
(* loop.loading says that the video has a source whose first frame has not   *)
(* arrived, loop.sending and loop.scheduled count the _processLoop calls     *)
(* suspended at await pose.send and the requestAnimationFrame callbacks not  *)
(* yet run.  The steps are taken in any order.                               *)

LoopStep(l) ==
  /\ loop' = l
  /\ UNCHANGED << armsClosed, ratio, thresholds, gameVars, inputVars, call, jumps,
                  ghostLog, rest >>

(* config.onChange listener for cameraDeviceId, modelComplexity or a reset: *)
(* _restartCamera up to its first await                                     *)
_restartCamera ==
  /\ loop.restarts < MaxRestarts
  /\ LoopStep([loop EXCEPT !.ready = FALSE, !.setOptions = @ + 1, !.restarts = @ + 1])

(* pose.setOptions resolves: _startCamera up to await getUserMedia *)
SetOptionsDone ==
  /\ loop.setOptions > 0
  /\ LoopStep([loop EXCEPT !.setOptions = @ - 1, !.getUserMedia = @ + 1])

(* getUserMedia resolves: the stream becomes the video's source and a once  *)
(* listener for "loadeddata" is added; or it rejects and the error is logged *)
GetUserMediaDone ==
  /\ loop.getUserMedia > 0
  /\ \/ LoopStep([loop EXCEPT !.getUserMedia = @ - 1, !.listeners = @ + 1, !.loading = TRUE])
     \/ LoopStep([loop EXCEPT !.getUserMedia = @ - 1])

(* "loadeddata": every listener sets _ready and calls _processLoop, which   *)
(* runs up to await pose.send                                               *)
LoadedData ==
  /\ loop.loading
  /\ LoopStep(IF loop.listeners > 0
              THEN [loop EXCEPT !.loading = FALSE, !.ready = TRUE,
                                !.sending = @ + loop.listeners, !.listeners = 0]
              ELSE [loop EXCEPT !.loading = FALSE])

(* pose.send resolves after delivering its results to _onResults; the loop *)
(* requests the next animation frame                                       *)
SendDone ==
  \E r \in GestureRatios :
    /\ loop.sending > 0
    /\ _onResultsIn(r, call, [loop EXCEPT !.sending = @ - 1, !.scheduled = @ + 1])
    /\ UNCHANGED << samples, closedBefore, events >>

(* pose.send rejects: that _processLoop call ends *)
SendFails ==
  /\ loop.sending > 0
  /\ LoopStep([loop EXCEPT !.sending = @ - 1])

(* the animation-frame callback: _processLoop returns if not _ready, else   *)
(* runs up to await pose.send                                               *)
_processLoop ==
  /\ loop.scheduled > 0
  /\ LoopStep(IF loop.ready
              THEN [loop EXCEPT !.scheduled = @ - 1, !.sending = @ + 1]
              ELSE [loop EXCEPT !.scheduled = @ - 1])

(* after the constructor: _initMediaPipe is suspended in _startCamera at    *)
(* await getUserMedia                                                       *)
LoopInit ==
  /\ InitGame([width |-> 800, height |-> 600], 0)
  /\ InitInput
  /\ armsClosed = FALSE
  /\ ratio = NoSignal
  /\ thresholds = [closed |-> ThresholdClosed, open |-> ThresholdOpen]
  /\ loop = [NoLoop EXCEPT !.getUserMedia = 1]
  /\ InitGhost

LoopNext ==
  \/ _restartCamera \/ SetOptionsDone \/ GetUserMediaDone \/ LoadedData
  \/ SendDone \/ SendFails \/ _processLoop

LoopSpec == LoopInit /\ [][LoopNext]_vars

----------------------------------------------------------------------------
(* Properties of Player.releaseJump, startCharge and update (PlayerSpec) *)

Pre == call.pre

(* C1: releaseJump called while not charging, or airborne, or dead returns *)
(* false and leaves every player field unchanged.                          *)
C1_RejectedReleaseChangesNothing ==
  (call.op = "releaseJump" /\ (~Pre.isCharging \/ ~Pre.isOnGround \/ Pre.isDead))
    => (call.ret = FALSE /\ player = Pre)

C1_Witness ==
  /\ call.op = "releaseJump"
  /\ ~Pre.isOnGround /\ ~Pre.isDead /\ Pre.vx > 0
  /\ call.ret = FALSE

(* C2: a successful release after a charge of c ticks gives the velocity of *)
(* a charge of min(c, maxCharge); every c >= maxCharge gives (maxVx, maxVy). *)
C2_ChargeClampedAtMax ==
  (call.op = "releaseJump" /\ call.ret)
    => LET c == Pre.chargeTime
           m == Min(c, MaxChargeT)
       IN  /\ player.vx * MaxChargeT = Vel(MinVx) * MaxChargeT + m * Vel(MaxVx - MinVx)
           /\ player.vy * MaxChargeT = Vel(MinVy) * MaxChargeT + m * Vel(MaxVy - MinVy)
           /\ c >= MaxChargeT => (player.vx = Vel(MaxVx) /\ player.vy = Vel(MaxVy))

C2_Witness ==
  /\ call.op = "releaseJump" /\ call.ret
  /\ Pre.chargeTime > MaxChargeT
  /\ player.vx = Vel(MaxVx)

(* The airborne player of the last update call after its move, before the *)
(* collision is resolved.                                                  *)
Moved == IF Pre.isDead \/ Pre.isOnGround THEN Pre ELSE Integrate(Pre, call.dt)

SweptOver(i) ==
  /\ Pre.worldY + Px(PlayerHeight) < platforms[i].worldY
  /\ Moved.worldY + Px(PlayerHeight) >= platforms[i].worldY
  /\ Moved.worldX + Px(PlayerWidth) > platforms[i].worldX
  /\ Moved.worldX < platforms[i].worldX + platforms[i].width

(* C3: an airborne player whose bottom edge was strictly above a platform's *)
(* top before the move and is at or below it after, overlapping the platform *)
(* horizontally, ends the update standing on that platform with zero         *)
(* velocity, whatever the step size.                                         *)
C3_SweptLanding ==
  (call.op = "update" /\ ~Pre.isOnGround)
    => \A i \in 1..Len(platforms) :
         SweptOver(i) => /\ player.worldY = platforms[i].worldY - Px(PlayerHeight)
                         /\ player.vx = 0 /\ player.vy = 0
                         /\ player.isOnGround

(* a landing in which the moved box is wholly below the platform *)
C3_Witness ==
  /\ call.op = "update" /\ ~Pre.isOnGround /\ player.isOnGround
  /\ \E i \in 1..Len(platforms) :
       SweptOver(i) /\ Moved.worldY > platforms[i].worldY + platforms[i].height

(* C8: startCharge sets isCharging and zeroes chargeTime exactly when the *)
(* player is grounded and alive; otherwise it changes nothing.            *)
C8_StartChargeEffect ==
  call.op = "startCharge"
    => IF Pre.isOnGround /\ ~Pre.isDead
       THEN player = [Pre EXCEPT !.isCharging = TRUE, !.chargeTime = 0]
       ELSE player = Pre

C8_Witness ==
  /\ call.op = "startCharge"
  /\ Pre.isOnGround /\ Pre.chargeTime > 0
  /\ player.isCharging /\ player.chargeTime = 0

C8_WitnessIgnored ==
  call.op = "startCharge" /\ ~Pre.isOnGround /\ Pre.vx > 0 /\ player = Pre

(* C9: a release while charging, grounded and alive returns true, launches *)
(* with the interpolated velocity, which lies in [minVx, maxVx] and in       *)
(* [maxVy, minVy] (upward), and leaves the player airborne and not charging. *)
C9_SuccessfulRelease ==
  (call.op = "releaseJump" /\ Pre.isCharging /\ Pre.isOnGround /\ ~Pre.isDead)
    => LET m == Min(Pre.chargeTime, MaxChargeT)
       IN  /\ call.ret = TRUE
           /\ m >= 0 /\ m <= MaxChargeT
           /\ player.vx * MaxChargeT = Vel(MinVx) * MaxChargeT + m * Vel(MaxVx - MinVx)
           /\ player.vy * MaxChargeT = Vel(MinVy) * MaxChargeT + m * Vel(MaxVy - MinVy)
           /\ Vel(MinVx) <= player.vx /\ player.vx <= Vel(MaxVx)
           /\ Vel(MaxVy) <= player.vy /\ player.vy <= Vel(MinVy) /\ player.vy < 0
           /\ ~player.isCharging /\ ~player.isOnGround
           /\ player = [Pre EXCEPT !.vx = player.vx, !.vy = player.vy,
                                   !.isCharging = FALSE, !.isOnGround = FALSE]

C9_Witness ==
  /\ call.op = "releaseJump" /\ call.ret
  /\ Pre.chargeTime > 0 /\ Pre.chargeTime < MaxChargeT
  /\ player.vx > Vel(MinVx) /\ player.vx < Vel(MaxVx)

(* C11: in every state reached by startCharge, releaseJump and update calls *)
(* in any order, a charging player is grounded and alive.                   *)
C11_ChargingIsGroundedAlive ==
  player.isCharging => (player.isOnGround /\ ~player.isDead)

(* a charge in progress, and a startCharge that was refused in the air *)
C11_Witness ==
  /\ call.op = "update" /\ call.dt > 0
  /\ player.isCharging /\ player.chargeTime > 0

C11_WitnessRefused ==
  call.op = "startCharge" /\ ~Pre.isOnGround /\ Pre.vy # 0 /\ ~player.isCharging

(* C13: once isDead is set, startCharge, releaseJump and update leave every *)
(* field of the player as it was.                                           *)
C13_DeadIsAbsorbing ==
  (call.op \in {"startCharge", "releaseJump", "update"} /\ Pre.isDead)
    => (player = Pre /\ call.ret = FALSE)

(* an update with a positive step on a dead player that still has velocity *)
C13_Witness ==
  /\ call.op = "update" /\ call.dt > 0
  /\ Pre.isDead /\ Pre.vx > 0 /\ Pre.vy > 0
  /\ player = Pre

----------------------------------------------------------------------------
(* Calibration of the jump against the gaps (PlatformSpec) *)

(* Range of a launch (vx, vy): vx * (2*|vy| / gravity).  The comparisons   *)
(* below are multiplied through by gravity.                                *)
RangeTimesG(vx, vy) == vx * 2 * Abs(vy)

Gap(i) == platforms[i + 1].worldX - (platforms[i].worldX + platforms[i].width)

C21_GapsAndHeights ==
  /\ \A i \in 1..(Len(platforms) - 1) :
       Px(config.minGapX) <= Gap(i) /\ Gap(i) <= Px(config.maxGapX)
  /\ \A i \in 1..Len(platforms) :
       Px(config.minY) <= top(platforms[i]) /\ top(platforms[i]) <= Px(config.floorY)

(* after an update that pruned and spawned: a platform clamped to the *)
(* ceiling and a gap of exactly minGapX                                *)
C21_Witness ==
  /\ call.op = "pmUpdate"
  /\ platforms[1].worldX > Px(StarterX)
  /\ \E i \in 1..Len(platforms) : top(platforms[i]) = Px(config.minY)
  /\ \E i \in 1..(Len(platforms) - 1) : Gap(i) = Px(config.minGapX)

(* a generated platform clamped to the floor *)
C21_WitnessFloor ==
  /\ call.op = "pmUpdate"
  /\ platforms[1].worldX > Px(StarterX)
  /\ \E i \in 1..Len(platforms) : top(platforms[i]) = Px(config.floorY)

(* The platforms before the last update that the update had to keep, and *)
(* the place of the i-th of them among those kept.                        *)
KeptIdx == { i \in 1..Len(call.plats) : right(call.plats[i]) > camera.x - Px(PruneMargin) }

Rank(i) == Cardinality({ j \in KeptIdx : j <= i })

(* C22: after update(camera) no platform has right <= camera.x - 200, and *)
(* every earlier platform with right > camera.x - 200 is still in the     *)
(* list, in the same relative order.                                      *)
C22_PruneExact ==
  call.op = "pmUpdate" =>
    /\ \A i \in 1..Len(platforms) : right(platforms[i]) > camera.x - Px(PruneMargin)
    /\ Len(platforms) >= Cardinality(KeptIdx)
    /\ \A i \in KeptIdx : platforms[Rank(i)] = call.plats[i]

(* an update that dropped some platforms and kept others; the first one *)
(* kept straddles the line camera.x - 200                                *)
C22_Witness ==
  /\ call.op = "pmUpdate"
  /\ KeptIdx # {} /\ Cardinality(KeptIdx) < Len(call.plats)
  /\ left(platforms[1]) <= camera.x - Px(PruneMargin)

----------------------------------------------------------------------------
(* The gesture decoder (GestureSpec) *)

EventAt(kind, k) == \E e \in 1..Len(events) : events[e] = [kind |-> kind, index |-> k]

EventsAt(k) == { e \in 1..Len(events) : events[e].index = k }

(* C6: with thresholds 1.0 and 2.5 the ratios 1.5, 0.5, 0.5, 1.2, 2.6 give a *)
(* press at index 1 and a release at index 4 and nothing else; in general a  *)
(* sample emits a press iff the decoder was open and ratio < thresholdClosed, *)
(* a release iff it was closed and ratio > thresholdOpen, nothing otherwise.  *)
C6_DecoderEvents ==
  /\ (samples = << 15, 5, 5, 12, 26 >> /\ thresholds = [closed |-> 10, open |-> 25])
       => events = << [kind |-> "press", index |-> 1], [kind |-> "release", index |-> 4] >>
  /\ \A k \in 1..Len(samples) :
       LET r == samples[k]
           was == closedBefore[k]
       IN  /\ EventAt("press", k - 1) <=> (r # NoSignal /\ ~was /\ r < thresholds.closed)
           /\ EventAt("release", k - 1) <=> (r # NoSignal /\ was /\ r > thresholds.open)
           /\ Cardinality(EventsAt(k - 1)) <= 1

C6_Witness ==
  /\ samples = << 15, 5, 5, 12, 26 >>
  /\ thresholds = [closed |-> 10, open |-> 25]
  /\ Len(events) = 2
  /\ ~armsClosed

(* _armsClosed after the k-th sample *)
ClosedAfter(k) == IF k < Len(samples) THEN closedBefore[k + 1] ELSE armsClosed

Changed(k) == ClosedAfter(k) # closedBefore[k]

(* C15: a sample without signal leaves _armsClosed and the input handler as *)
(* they were and emits no event, in either state and however many follow    *)
(* each other.                                                              *)
C15_NoSignalIsSilent ==
  [][ratio' = NoSignal => UNCHANGED << armsClosed, keys, justPressed, justReleased, events >>]_vars

(* two samples without signal in a row in the closed state, one in the open *)
C15_Witness ==
  /\ \E k \in 1..(Len(samples) - 1) :
       samples[k] = NoSignal /\ samples[k + 1] = NoSignal /\ closedBefore[k]
  /\ \E k \in 1..Len(samples) : samples[k] = NoSignal /\ ~closedBefore[k]
  /\ ratio = NoSignal /\ armsClosed /\ isHeld(Space)

(* C16: a sample with thresholdClosed <= ratio <= thresholdOpen leaves      *)
(* _armsClosed as it was and emits no event, whichever state the decoder is *)
(* in and wherever the previous sample was.                                 *)
C16_DeadZoneIsSilent ==
  \A k \in 1..Len(samples) :
    (samples[k] # NoSignal /\ thresholds.closed <= samples[k] /\ samples[k] <= thresholds.open)
      => (~Changed(k) /\ EventsAt(k - 1) = {})

(* both thresholds themselves sampled, each in the state it could flip, and *)
(* the dead zone entered from below and from above                          *)
C16_Witness ==
  /\ \E k \in 1..Len(samples) : samples[k] = thresholds.closed /\ ~closedBefore[k]
  /\ \E k \in 1..Len(samples) : samples[k] = thresholds.open /\ closedBefore[k]
  /\ \E k \in 2..Len(samples) : samples[k] = thresholds.open /\ samples[k - 1] = 5
  /\ \E k \in 2..Len(samples) : samples[k] = 15 /\ samples[k - 1] = 26

(* C17: the events are press, release, press, ... starting with a press,    *)
(* one for each sample that changed _armsClosed and none for the others,    *)
(* and each was delivered: Space is held exactly while the arms are closed. *)
C17_OneEventPerTransition ==
  /\ \A e \in 1..Len(events) :
       events[e].kind = IF e % 2 = 1 THEN "press" ELSE "release"
  /\ \A k \in 1..Len(samples) :
       Cardinality(EventsAt(k - 1)) = IF Changed(k) THEN 1 ELSE 0
  /\ Len(events) = Cardinality({ k \in 1..Len(samples) : Changed(k) })
  /\ isHeld(Space) <=> armsClosed

C17_Witness ==
  /\ Len(events) = 3
  /\ Len(samples) = 5
  /\ armsClosed /\ isHeld(Space)

(* C18 as stated: whenever the decoder processes a sample, thresholdClosed *)
(* is below thresholdOpen.                                                 *)
C18_ThresholdsOrdered ==
  [][samples' # samples => thresholds.closed < thresholds.open]_vars

----------------------------------------------------------------------------
(* A game run (Spec) *)

(* The first jump of the run was released after exactly maxCharge of charge *)
(* and the flight is over.                                                  *)
FullChargeDone ==
  /\ jumps = 1
  /\ player.chargeTime = MaxChargeT
  /\ ~player.isCharging
  /\ player.isOnGround \/ player.isDead

StarterRight == Px(StarterX) + Px(MathRound(config.platformWidth * 3, 2))

(* the platform generated immediately after the starter *)
IsNextAfterStarter(platform) ==
  /\ platform.worldX > StarterRight
  /\ platform.worldX <= StarterRight + Px(config.maxGapX)

StandsOn(platform) ==
  /\ player.isOnGround
  /\ player.worldY + Px(PlayerHeight) = platform.worldY
  /\ player.worldX + Px(PlayerWidth) > platform.worldX
  /\ player.worldX < platform.worldX + platform.width

OnNextPlatform ==
  \E i \in 1..Len(platforms) : IsNextAfterStarter(platforms[i]) /\ StandsOn(platforms[i])

OnLaterPlatform ==
  \E i \in 1..Len(platforms) :
    /\ platforms[i].worldX > StarterRight + Px(config.maxGapX)
    /\ StandsOn(platforms[i])
    /\ platforms[i].landed

C7_WitnessDead == FullChargeDone /\ player.isDead /\ score = 0

(* C10 as stated: a dead player has zero velocity. *)
C10_DeadHasZeroVelocity ==
  player.isDead => (player.vx = 0 /\ player.vy = 0)

(* C10 amended: a dead player is airborne and keeps the velocity of the    *)
(* fall it died in (vx >= minVx, vy > 0); dying does not zero it.          *)
C10_DeadKeepsFallVelocity ==
  player.isDead => (~player.isOnGround /\ player.vx >= Vel(MinVx) /\ player.vy > 0)

C10_Witness == player.isDead /\ gameOver /\ player.vy > 0 /\ call.op = "frame"

(* C12: between ticks a grounded player has zero velocity; a non-zero       *)
(* velocity is found only on an airborne player.                            *)
C12_GroundedHasZeroVelocity ==
  /\ player.isOnGround => (player.vx = 0 /\ player.vy = 0)
  /\ (player.vx # 0 \/ player.vy # 0) => ~player.isOnGround

(* a tick in which a player in flight has landed *)
C12_Witness ==
  /\ call.op = "frame"
  /\ ~Pre.isOnGround /\ Pre.vx > 0
  /\ player.isOnGround /\ player.vx = 0 /\ player.vy = 0

----------------------------------------------------------------------------
(* Input edges and ticks *)

(* C14 as stated: a tick starts a charge only from grounded-idle, ends one *)
(* only by a successful releaseJump, and a charge that continues through   *)
(* the tick keeps accumulating, and one released in the tick is released   *)
(* with the charge it had: a press edge read while charging does not set   *)
(* chargeTime back.                                                        *)
C14_ChargeNotRestarted ==
  (io.tick /\ call.op = "frame" /\ ~Pre.isDead) =>
    /\ (~Pre.isCharging /\ player.isCharging) => (Pre.isOnGround /\ ~Pre.isDead)
    /\ (Pre.isCharging /\ ~player.isCharging) => call.ret
    /\ (Pre.isCharging /\ player.isCharging) => player.chargeTime = Pre.chargeTime + call.dt
    /\ (Pre.isCharging /\ call.ret) => player.chargeTime = Pre.chargeTime

(* C19: the edges a tick reads are exactly the edges written since the     *)
(* previous flush, and after the tick none is left for a later one; between *)
(* ticks the buffer holds exactly the edges written since the last flush.   *)
C19_EdgesReportedOnce ==
  /\ io.tick => /\ io.sawPress = io.hadPress
                /\ io.sawRelease = io.hadRelease
                /\ justPressed = {} /\ justReleased = {}
  /\ ~io.tick => /\ isJustPressed(Space) = io.pressEdge
                 /\ isJustReleased(Space) = io.releaseEdge

(* a tick, not the first, that read both edges while a finger is down and *)
(* the decoder is in the closed state                                     *)
C19_Witness ==
  /\ io.tick /\ ticks >= 2
  /\ io.sawPress /\ io.sawRelease
  /\ touches.game > 0 /\ armsClosed

(* C20: after every tick, the game-over ticks included, both edge sets are *)
(* empty and the held set is what it was before the flush; the tick's       *)
(* logic read the edges before they were cleared.                           *)
C20_FlushOncePerTick ==
  io.tick => /\ justPressed = {} /\ justReleased = {}
             /\ keys = io.held
             /\ (io.hadPress => io.sawPress) /\ (io.hadRelease => io.sawRelease)

(* the tick that restarts after a game over, with the key still held *)
C20_Witness ==
  /\ io.tick /\ call.op = "frame"
  /\ Pre.isDead /\ ~gameOver
  /\ io.sawPress /\ keys = {Space}

C20_WitnessOver ==
  io.tick /\ Pre.isDead /\ gameOver /\ io.sawRelease /\ keys = {}

----------------------------------------------------------------------------
(* Platforms and the score over the ticks of a run (Spec) *)

(* the step is a restart: Space pressed in the game-over state *)
Restarted == gameOver /\ ~gameOver'

(* q, a platform of the list before the step, is in the list after it with *)
(* the same geometry and a landed flag that has not gone back to false     *)
KeptAsIs(q) ==
  \E j \in 1..Len(platforms') :
    /\ platforms'[j] = [q EXCEPT !.landed = platforms'[j].landed]
    /\ q.landed => platforms'[j].landed

(* q is not in the list after the step, its right edge being more than the *)
(* prune margin behind the camera                                          *)
Dropped(q) ==
  /\ \A j \in 1..Len(platforms') : platforms'[j].worldX # q.worldX
  /\ right(q) <= camera'.x - Px(PruneMargin)

(* C23: over every step of a run, every platform of the list either stays  *)
(* in the list with unchanged worldX, worldY, width and height and a landed *)
(* flag that only goes from false to true, or is dropped by the pruning.    *)
C23_GeometryImmutable ==
  [][ Restarted \/ \A i \in 1..Len(platforms) : KeptAsIs(platforms[i]) \/ Dropped(platforms[i]) ]_vars

(* a landing has been credited on a platform beyond the starter, and the   *)
(* starter has been pruned                                                 *)
C23_Witness ==
  /\ call.op = "frame"
  /\ platforms[1].worldX > Px(StarterX)
  /\ \E i \in 1..Len(platforms) : platforms[i].landed /\ StandsOn(platforms[i])
  /\ \E i \in 1..Len(platforms) : ~platforms[i].landed

(* C24: within a run the score is the number of distinct platforms other   *)
(* than the starter that the player has stood on; a platform of the list is *)
(* flagged landed exactly when it is the starter or has been stood on; the  *)
(* starter is never credited.                                               *)
C24_ScoreCountsLandings ==
  /\ score = Cardinality(visited \ {Px(StarterX)})
  /\ \A i \in 1..Len(platforms) :
       platforms[i].landed <=> (platforms[i].worldX = Px(StarterX) \/ platforms[i].worldX \in visited)

(* C24, over the steps: the score never decreases within a run, and it goes *)
(* up by the number of platforms stood on for the first time in that tick.  *)
C24_ScoreMonotone ==
  [][ Restarted \/ (score' >= score /\ score' - score = Cardinality((visited' \ visited) \ {Px(StarterX)})) ]_vars

(* a credited landing followed by a further tick on the same platform: the  *)
(* score is still 1                                                         *)
C24_Witness ==
  /\ call.op = "frame"
  /\ Pre.isOnGround /\ player.isOnGround
  /\ score = 1
  /\ Px(StarterX) \in visited /\ Cardinality(visited) = 2
  /\ \E i \in 1..Len(platforms) : platforms[i].worldX # Px(StarterX) /\ StandsOn(platforms[i])

----------------------------------------------------------------------------
(* Restart and resize (RunSpec) *)

(* the last step was a restart tick or a window resize *)
AfterReset ==
  \/ call.op = "resize"
  \/ call.op = "frame" /\ Pre.isDead /\ ~gameOver

(* C25: after a restart or a resize the player is a new one on the starter *)
(* platform (no velocity, not grounded yet, not charging, not dead, charge  *)
(* time 0), the camera and the generation parameters are those of the       *)
(* current canvas, the platform list is a new initial list whose only       *)
(* landed platform is the starter, the score is 0 and the game is not over. *)
C25_ResetIsComplete ==
  AfterReset =>
    /\ score = 0 /\ ~gameOver
    /\ player.worldX = platforms[1].worldX + platforms[1].width \div 2 - Px(16)
    /\ player.worldY = platforms[1].worldY - Px(PlayerHeight)
    /\ player.vx = 0 /\ player.vy = 0
    /\ ~player.isOnGround /\ ~player.isDead
    /\ ~player.isCharging /\ player.chargeTime = 0
    /\ camera.canvasWidth = canvas.width /\ camera.canvasHeight = canvas.height
    /\ camera.scaleN * ReferenceWidth = canvas.width * camera.scaleD
    /\ camera.x = player.worldX - ToWorld(canvas.width * 3, camera) \div 10
    /\ config = PMConfig(canvas.width, canvas.height, camera)
    /\ Len(platforms) = 1 + InitialSpawns
    /\ platforms[1].worldX = Px(StarterX) /\ platforms[1].worldY = Px(config.floorY)
    /\ platforms[1].landed
    /\ \A i \in 2..Len(platforms) : ~platforms[i].landed

(* a restart out of the game-over state: the player of the old run was dead *)
(* and falling                                                             *)
C25_Witness ==
  /\ call.op = "frame" /\ Pre.isDead /\ Pre.vy > 0
  /\ ~gameOver /\ ~player.isDead

(* a resize to the narrow canvas while the player of the old run was in    *)
(* flight                                                                  *)
C25_WitnessResize ==
  /\ call.op = "resize" /\ ~Pre.isOnGround /\ Pre.vx > 0
  /\ canvas.width = 400
  /\ score = 0

----------------------------------------------------------------------------
(* The Camera transform (CameraSpec) *)

(* screenX / scale + camera.x, as the exact fraction num/den of grid units *)
BackToWorld(cam, sx) ==
  LET q == Frac(sx.num * Scale(cam).den, sx.den * Scale(cam).num)
      w == Frac(q.num * PosUnit, q.den)
  IN  Frac(w.num + cam.x * w.den, w.den)

(* C26: after follow(worldX), toScreenX(worldX) is 0.3 * canvasWidth screen *)
(* px, whatever the scale.                                                  *)
C26_FollowPinsPlayer ==
  call.op = "follow" =>
    LET sx == toScreenX(camera, call.worldX)
    IN  /\ camera.scaleN > 0
        /\ sx.num * 10 = 3 * camera.canvasWidth * sx.den

(* a follow on a zoomed-out camera that moved the camera left of the origin *)
C26_Witness ==
  /\ call.op = "follow"
  /\ camera.scaleN < camera.scaleD
  /\ camera.x < 0
  /\ call.screenX.num > 0

(* C27: for every world X, camera position and scale, toScreenX(X) / scale  *)
(* + camera.x is X again.                                                   *)
C27_RoundTrip ==
  call.op = "toScreenX" =>
    LET back == BackToWorld(camera, call.screenX)
    IN  /\ call.screenX = toScreenX(camera, call.worldX)
        /\ back = [ num |-> call.worldX, den |-> 1 ]

(* a point left of a moved, zoomed-in camera: its screen X is negative *)
C27_Witness ==
  /\ call.op = "toScreenX"
  /\ camera.scaleN > camera.scaleD
  /\ camera.x > 0
  /\ call.screenX.num < 0

----------------------------------------------------------------------------
(* The order of the steps of a tick (Spec) *)

(* the last step was a tick out of a running game *)
RunningTick == call.op = "frame" /\ ~Pre.isDead

(* C28: after every tick of a running game, in the very state the tick      *)
(* leaves: a grounded idle player whose tick read a press and a release has *)
(* jumped (startCharge ran before releaseJump); the camera is where follow  *)
(* puts it for the updated player, who is drawn at 0.3 of the canvas width; *)
(* the platform list is pruned and spawned for that camera; every platform  *)
(* the player stands on is flagged landed; and gameOver is the player's     *)
(* dead flag.                                                               *)
C28_TickOrder ==
  RunningTick =>
    /\ (io.sawPress /\ io.sawRelease /\ Pre.isOnGround /\ ~Pre.isCharging) => call.ret
    /\ camera.x = player.worldX - ToWorld(canvas.width * 3, camera) \div 10
    /\ toScreenX(camera, player.worldX).num * 10
         = 3 * canvas.width * toScreenX(camera, player.worldX).den
    /\ \A i \in 1..Len(platforms) : right(platforms[i]) > camera.x - Px(PruneMargin)
    /\ _last(platforms).worldX >= camera.x + ToWorld(canvas.width, camera) + Px(SpawnMargin)
    /\ \A i \in 1..Len(platforms) : StandsOn(platforms[i]) => platforms[i].landed
    /\ gameOver <=> player.isDead

(* a tick in which the player landed on a platform beyond the starter: the *)
(* landing is credited in the same tick                                    *)
C28_Witness ==
  /\ RunningTick
  /\ ~Pre.isOnGround /\ Pre.vy > 0 /\ player.isOnGround
  /\ score = 1
  /\ \E i \in 1..Len(platforms) :
       platforms[i].worldX > Px(StarterX) /\ StandsOn(platforms[i]) /\ platforms[i].landed

(* a tick in which the player died: the game is over in the same tick *)
C28_WitnessDeath ==
  /\ RunningTick
  /\ player.isDead /\ gameOver

(* a tick that read both edges on a grounded idle player *)
C28_WitnessBothEdges ==
  /\ RunningTick
  /\ io.sawPress /\ io.sawRelease /\ Pre.isOnGround /\ ~Pre.isCharging
  /\ call.ret /\ ~player.isOnGround

----------------------------------------------------------------------------
(* Ascent and death in Player.update (PlayerSpec) *)

(* C29: an update of a living airborne player whose velocity after the     *)
(* integration points upward leaves it airborne with its vx, at the moved   *)
(* position, whatever platforms it overlaps.                                *)
C29_AscendingNeverLands ==
  (call.op = "update" /\ ~Pre.isOnGround /\ ~Pre.isDead /\ Moved.vy < 0)
    => /\ ~player.isOnGround
       /\ player.vx = Pre.vx
       /\ player.vy = Moved.vy
       /\ player.worldX = Moved.worldX /\ player.worldY = Moved.worldY

(* the update with dt = 0 that follows a launch: the player still touches   *)
(* the surface it left and overlaps the platform, and stays airborne        *)
C29_Witness ==
  /\ call.op = "update" /\ call.dt = 0
  /\ ~Pre.isOnGround /\ ~Pre.isDead /\ Pre.vy < 0 /\ Pre.vx > 0
  /\ Hits(bottom(Pre), Moved, platforms) # {}
  /\ ~player.isOnGround

(* an ascending step with dt > 0 of a player that overlaps a platform      *)
(* horizontally                                                            *)
C29_WitnessMoving ==
  /\ call.op = "update" /\ call.dt > 0
  /\ ~Pre.isOnGround /\ Moved.vy < 0
  /\ \E i \in 1..Len(platforms) : horizontalOverlap(Moved, platforms[i])
  /\ ~player.isOnGround

(* C30: an update of a living player, grounded, charging or airborne,      *)
(* leaves it dead exactly when its worldY after the move and the collision  *)
(* is greater than worldHeight + 100.                                       *)
C30_DeathBelowMargin ==
  (call.op = "update" /\ ~Pre.isDead)
    => (player.isDead <=> player.worldY > WorldHeight(canvas, camera) + Px(DeathMargin))

(* a fall that ended in death *)
C30_Witness ==
  /\ call.op = "update" /\ ~Pre.isDead /\ player.isDead
  /\ player.worldY > WorldHeight(canvas, camera) + Px(DeathMargin)
  /\ Pre.worldY <= WorldHeight(canvas, camera) + Px(DeathMargin)

(* a fall below the bottom of the world, within the margin: still alive *)
C30_WitnessMargin ==
  /\ call.op = "update" /\ ~player.isDead /\ ~player.isOnGround
  /\ player.worldY > WorldHeight(canvas, camera)
  /\ player.worldY <= WorldHeight(canvas, camera) + Px(DeathMargin)

----------------------------------------------------------------------------
(* Several platforms hit in one update (StackSpec) *)

(* the platforms of the list that the moved player overlaps and whose top  *)
(* its bottom edge has crossed in the last update                          *)
HitsNow ==
  { i \in 1..Len(platforms) :
      /\ Moved.worldX + Px(PlayerWidth) > platforms[i].worldX
      /\ Moved.worldX < platforms[i].worldX + platforms[i].width
      /\ Pre.worldY + Px(PlayerHeight) <= platforms[i].worldY
      /\ Moved.worldY + Px(PlayerHeight) >= platforms[i].worldY }

FirstHit == CHOOSE k \in HitsNow : \A j \in HitsNow : k <= j

(* C31: when the falling player hits several platforms in one update it is *)
(* snapped onto the first of them in list order, and the result is the one  *)
(* of the same update against the list cut after that platform.             *)
C31_FirstMatchWins ==
  (call.op = "update" /\ ~Pre.isOnGround /\ ~Pre.isDead /\ Moved.vy >= 0 /\ HitsNow # {})
    => /\ player.isOnGround
       /\ player.worldY = platforms[FirstHit].worldY - Px(PlayerHeight)
       /\ player = update(Pre, call.dt, SubSeq(platforms, 1, FirstHit),
                          WorldHeight(canvas, camera))

(* two or more platforms hit, a later one higher than the first: the        *)
(* player rests on the first, below the higher one                          *)
C31_Witness ==
  /\ call.op = "update" /\ ~Pre.isOnGround /\ Moved.vy >= 0
  /\ Cardinality(HitsNow) >= 2
  /\ \E j \in HitsNow : j > FirstHit /\ platforms[j].worldY < platforms[FirstHit].worldY
  /\ player.isOnGround
  /\ player.worldY = platforms[FirstHit].worldY - Px(PlayerHeight)

----------------------------------------------------------------------------
(* Guarded divisions (PoseSpec) *)

(* the shoulder and wrist distances of the last pose result *)
LastShoulderDist == _dist(call.pose.lm11, call.pose.lm12)
LastWristDist    == _dist(call.pose.lm15, call.pose.lm16)

(* the last pose result had no landmarks or shoulders at most 0.01 apart *)
LastPoseUnusable ==
  ~call.pose.poseLandmarks \/ LastShoulderDist <= MinShoulderDist

(* C32: a pose result without landmarks or with a shoulder distance of at  *)
(* most 0.01 gives ratio = null, leaves the decoder's state and the input   *)
(* handler as they were; every other result gives the finite quotient       *)
(* wristDist / shoulderDist >= 0; and maxCharge, the divisor of the charge  *)
(* fraction, is positive.                                                   *)
C32_DivisionsGuarded ==
  /\ MaxChargeT > 0
  /\ call.op = "onResults" =>
       /\ LastPoseUnusable =>
            /\ ratio = NoSignal
            /\ armsClosed = call.closedBefore
            /\ TheInput = call.inputBefore
       /\ ~LastPoseUnusable =>
            /\ ratio >= 0
            /\ ratio * LastShoulderDist <= LastWristDist * RatioUnit
            /\ LastWristDist * RatioUnit < (ratio + 1) * LastShoulderDist

(* shoulders 0.005 apart while the arms are closed: the quotient would be  *)
(* far above the open threshold, and nothing happens                       *)
C32_Witness ==
  /\ call.op = "onResults"
  /\ call.pose.poseLandmarks
  /\ LastShoulderDist = 5 /\ LastWristDist = 520
  /\ call.closedBefore /\ armsClosed
  /\ ratio = NoSignal

(* shoulders on the same point: the quotient would be a division by zero *)
C32_WitnessZero ==
  /\ call.op = "onResults"
  /\ call.pose.poseLandmarks
  /\ LastShoulderDist = 0
  /\ ratio = NoSignal

----------------------------------------------------------------------------
(* The first tick of a run (Spec) *)

(* the position _initSystems gives the player: centred on the starter *)
StartX == platforms[1].worldX + platforms[1].width \div 2 - Px(16)

(* the state is that of a fresh construction or of a restart *)
FreshRun ==
  \/ call.op = "none"
  \/ call.op = "frame" /\ Pre.isDead /\ ~gameOver

(* the last step was the first tick of a run: it started from the player   *)
(* as constructed, airborne and at rest                                    *)
FirstTick ==
  /\ call.op = "frame"
  /\ ~Pre.isOnGround /\ ~Pre.isDead
  /\ Pre.vx = 0 /\ Pre.vy = 0

(* C33: a fresh player is not grounded; the first tick of a run, whatever  *)
(* its dt and whatever input it reads, leaves the player grounded on the    *)
(* starter at worldY = starter.top - 48 with zero velocity, alive, not      *)
(* charging, with score 0.                                                  *)
C33_FirstTickGrounds ==
  /\ FreshRun => (~player.isOnGround /\ ~player.isCharging /\ score = 0)
  /\ FirstTick =>
       /\ platforms[1].worldX = Px(StarterX)
       /\ player.isOnGround
       /\ player.worldX = StartX
       /\ player.worldY = platforms[1].worldY - Px(PlayerHeight)
       /\ player.vx = 0 /\ player.vy = 0
       /\ ~player.isDead /\ ~gameOver
       /\ ~player.isCharging /\ player.chargeTime = 0
       /\ ~call.ret
       /\ score = 0

(* the very first frame, dt = 0, reads a press of Space: no charge starts, *)
(* and Space is still held                                                 *)
C33_Witness ==
  /\ FirstTick /\ call.dt = 0
  /\ io.sawPress /\ Space \in keys
  /\ player.isOnGround /\ ~player.isCharging
  /\ jumps = 0

(* the first tick after a restart, with dt = 0.05 *)
C33_WitnessRestart ==
  /\ FirstTick /\ call.dt = 1
  /\ jumps = 1
  /\ player.isOnGround /\ score = 0

----------------------------------------------------------------------------
(* A press and a release read by the same tick (InputSpec) *)

(* the last tick read both edges of Space on a grounded living player *)
BothEdgesTick ==
  /\ call.op = "frame"
  /\ io.sawPress /\ io.sawRelease
  /\ Pre.isOnGround /\ ~Pre.isDead

(* C34: a tick that reads both a press and a release of Space on a grounded *)
(* living player launches it with charge 0: the jump is performed, the tick  *)
(* ends with the player airborne, not charging, with vx = minVx and the      *)
(* vy = minVy of the launch plus the tick's gravity, whether or not Space is *)
(* still held and whether or not the player was charging before.             *)
C34_BothEdgesLaunch ==
  BothEdgesTick =>
    /\ call.ret
    /\ ~player.isOnGround /\ ~player.isCharging /\ ~player.isDead
    /\ player.chargeTime = 0
    /\ player.vx = Vel(MinVx)
    /\ player.vy = Vel(MinVy) + (Vel(Gravity) * call.dt) \div TimeUnit

(* press, then release: Space is up when the tick runs, the player was idle *)
C34_Witness ==
  /\ BothEdgesTick
  /\ Space \notin io.held
  /\ ~Pre.isCharging
  /\ call.ret /\ player.vx = Vel(MinVx)

(* release, then press: Space is held when the tick runs and the player had *)
(* been charging for a while                                               *)
C34_WitnessHeld ==
  /\ BothEdgesTick
  /\ Space \in io.held
  /\ Pre.isCharging /\ Pre.chargeTime > 0
  /\ call.ret /\ player.vx = Vel(MinVx)

----------------------------------------------------------------------------
(* The decoder's flag and the held key (GestureSpec, MixedSpec) *)

Held == Space \in keys

(* C35, decoder only: with the decoder as the only input source the        *)
(* arms-closed flag equals isHeld("Space") after every sample.             *)
C35_DecoderOnlyInSync == armsClosed <=> Held

(* C35: a decoder transition that starts with the flag equal to            *)
(* isHeld("Space") ends with them equal and leaves its edge in the input    *)
(* handler; one that starts with the two different changes nothing in the   *)
(* input handler: no key, no press edge, no release edge.                   *)
C35_InSyncOrSilent ==
  [][ armsClosed' # armsClosed =>
        IF armsClosed <=> Held
        THEN /\ armsClosed' <=> Space \in keys'
             /\ armsClosed' => Space \in justPressed'
             /\ ~armsClosed' => Space \in justReleased'
        ELSE << keys, justPressed, justReleased >>' = << keys, justPressed, justReleased >>
    ]_vars

(* the arms were closed while Space was up (a key-up came in between) and  *)
(* the decoder went to open: the input handler is as it was before          *)
C35_Witness ==
  /\ call.op = "onResults"
  /\ call.closedBefore /\ ~armsClosed
  /\ Space \notin call.inputBefore.keys
  /\ TheInput = call.inputBefore
  /\ Space \notin justReleased

(* the arms are closed and Space is not held *)
C35_WitnessDiverged == armsClosed /\ ~Held /\ ratio # NoSignal

----------------------------------------------------------------------------
(* The order of the platform list (Spec) *)

(* the platforms that pass the standing-on test of _checkScore *)
StoodOnNow == { i \in 1..Len(platforms) : _playerIsStandingOn(player, platforms[i]) }

(* C36: in every state of a run the platform list is non-empty, each        *)
(* platform lies wholly to the right of the one before it (prev.right <      *)
(* next.left, hence strictly increasing worldX), and at most one platform    *)
(* passes the standing-on test.                                              *)
C36_ListOrdered ==
  /\ Len(platforms) >= 1
  /\ \A i \in 1..(Len(platforms) - 1) :
       /\ right(platforms[i]) < left(platforms[i + 1])
       /\ platforms[i].worldX < platforms[i + 1].worldX
  /\ Cardinality(StoodOnNow) <= 1

(* C36, over the steps: the score grows by at most 1 per tick. *)
C36_ScoreStep == [][ score' <= score + 1 ]_vars

(* after a scored landing with the starter pruned and platforms spawned    *)
(* during the run: exactly one platform passes the standing-on test        *)
C36_Witness ==
  /\ score = 1
  /\ platforms[1].worldX > Px(StarterX)
  /\ Cardinality(StoodOnNow) = 1
  /\ Len(platforms) >= 2

----------------------------------------------------------------------------
(* The platform under the player (Spec) *)

(* C37: whenever the player is grounded, the list holds a platform whose   *)
(* top is the player's bottom edge and which overlaps the player; the       *)
(* camera's left edge is behind the player and that platform's right edge   *)
(* is ahead of the pruning line.                                            *)
C37_GroundIsKept ==
  player.isOnGround =>
    /\ camera.x < player.worldX
    /\ \E i \in 1..Len(platforms) :
         /\ top(platforms[i]) = bottom(player)
         /\ horizontalOverlap(player, platforms[i])
         /\ right(platforms[i]) > camera.x - Px(PruneMargin)

(* a landing in a tick whose update pruned platforms: the player stands on *)
(* a platform that is not the first of the list, and the starter is gone   *)
C37_Witness ==
  /\ call.op = "frame"
  /\ ~Pre.isOnGround /\ player.isOnGround
  /\ platforms[1].worldX > Px(StarterX)
  /\ \E i \in 2..Len(platforms) : StandsOn(platforms[i])

----------------------------------------------------------------------------
(* Frame loops of CameraInput (LoopSpec) *)

(* the _processLoop chains in progress: calls waiting for pose.send and    *)
(* animation-frame callbacks not yet run                                   *)
LoopsInProgress == loop.sending + loop.scheduled

(* C38: while _ready is set, so that every chain in progress goes on, at    *)
(* most one _processLoop chain is in progress.                              *)
C38_AtMostOneLoop == loop.ready => LoopsInProgress <= 1

(* C38, in the weaker reading: at most one call is waiting for pose.send,  *)
(* so that at most one loop feeds samples to the decoder.                   *)
C38_AtMostOneSender == loop.sending <= 1

====
